---- MODULE Spec2Model ----
(***************************************************************************)
(* A model of dash-app.py, the Gapminder dashboard: the table loaded at    *)
(* startup, the widgets of the layout with their option lists and default  *)
(* values, the five callbacks, and the reactive engine that invokes a      *)
(* callback when one of its Inputs changes and replaces its Output.        *)
(*                                                                         *)
(* A data frame is a sequence of records, a figure is a record holding     *)
(* the arguments the callback hands to the plotting function (the frame    *)
(* it plots included), and an f-string is the sequence of its parts.       *)
(***************************************************************************)
EXTENDS Integers, Sequences, FiniteSets, TLC

VARIABLES
    gapminder,      \* the data frame read at startup (line 11)
    widgets,        \* session -> widget id -> current value (browser side)
    outputs,        \* session -> output id -> what the page shows
    pending,        \* session -> outputs whose callback is to be invoked
    loaded,         \* the sessions whose page is open
    calls,          \* output id -> the invocations of its callback so far
    interactions,   \* how many widget changes the users have made
    limit           \* how many widget changes this behaviour may hold

vars == <<gapminder, widgets, outputs, pending, loaded, calls, interactions, limit>>

----------------------------------------------------------------------------
(* Bounds of the model *)

MaxRows == 2            \* rows of a loaded table, handlers called directly
MaxPreviewRows == 11    \* rows of a loaded table, preview specification
MaxInteractions == 1        \* widget changes in one behaviour, one session
MaxRevisits == 2            \* widget changes in one behaviour, one session that returns to earlier values
MaxSharedInteractions == 1  \* widget changes in one behaviour, two sessions

----------------------------------------------------------------------------
(* The table *)

Columns == <<"country", "year", "pop", "continent", "lifeExp", "gdpPercap">>

NumericColumns == <<"gdpPercap", "lifeExp", "pop">>

Countries == {"United States", "China"}

ContinentOf == [c \in Countries |-> IF c = "China" THEN "Asia" ELSE "Americas"]

Years == {2002, 2007}

Values == {1, 2}

Records ==
    { [country |-> c, year |-> y, pop |-> p, continent |-> ContinentOf[c],
       lifeExp |-> l, gdpPercap |-> g] :
        c \in Countries, y \in Years, p \in Values, l \in Values, g \in Values }

SeqsUpTo(S, n) == UNION { [1..k -> S] : k \in 1..n }

Datasets == SeqsUpTo(Records, MaxRows)

Row(c, y, l, p, g) ==
    [country |-> c, year |-> y, pop |-> p, continent |-> ContinentOf[c],
     lifeExp |-> l, gdpPercap |-> g]

\* Tables in the shape of the file the program reads, and what becomes of
\* them when rows are missing or out of order.
Excerpt ==
    <<Row("China", 2002, 1, 2, 1), Row("China", 2007, 2, 2, 2),
      Row("United States", 2002, 1, 1, 2), Row("United States", 2007, 2, 1, 2)>>

\* Three of its rows, not in the file's order.
Shuffled ==
    <<Row("United States", 2007, 2, 1, 2), Row("China", 2002, 1, 2, 1),
      Row("United States", 2002, 1, 1, 2)>>

SessionDatasets ==
    { Excerpt,
      Shuffled,
      <<Row("United States", 2002, 1, 1, 2), Row("United States", 2007, 2, 1, 2)>>,
      <<Row("China", 2002, 1, 2, 1)>> }

PreviewRecords == { Row("China", 2002, 1, 1, 1), Row("United States", 2007, 2, 2, 2) }

PreviewDatasets == SeqsUpTo(PreviewRecords, MaxPreviewRows)

----------------------------------------------------------------------------
(* pandas *)

Min(a, b) == IF a <= b THEN a ELSE b

Max(a, b) == IF a >= b THEN a ELSE b

\* A variant of head: the last n rows, as df.tail(n) gives.
head_tail(df, n) == SubSeq(df, Len(df) - Min(n, Len(df)) + 1, Len(df))

\* df.head(n): the first n rows; for a negative n, all but the last -n rows.
head(df, n) ==
    IF n >= 0 THEN SubSeq(df, 1, Min(n, Len(df)))
    ELSE SubSeq(df, 1, Max(Len(df) + n, 0))

\* df[col].unique()
unique(df, col) == { df[i][col] : i \in 1..Len(df) }

SetMin(S) == CHOOSE m \in S : \A x \in S : m <= x

SetMax(S) == CHOOSE m \in S : \A x \in S : m >= x

RECURSIVE Sum(_, _)
Sum(f, n) == IF n = 0 THEN 0 ELSE f[n] + Sum(f, n - 1)

RECURSIVE Gcd(_, _)
Gcd(a, b) == IF b = 0 THEN a ELSE Gcd(b, a % b)

Sign(x) == IF x > 0 THEN 1 ELSE IF x < 0 THEN -1 ELSE 0

NaN == [sign |-> 0, num |-> 0, den |-> 0]

\* Pearson's r of two columns as DataFrame.corr() computes it (min_periods
\* 1): covariance over the root of the product of the variances, NaN when
\* that divisor is 0 (no row, one row, a constant column).  r is kept
\* exact: its sign and r^2 = num/den in lowest terms.
Pearson(df, a, b) ==
    LET n   == Len(df)
        xs  == [i \in 1..n |-> df[i][a]]
        ys  == [i \in 1..n |-> df[i][b]]
        cov == n * Sum([i \in 1..n |-> xs[i] * ys[i]], n) - Sum(xs, n) * Sum(ys, n)
        vx  == n * Sum([i \in 1..n |-> xs[i] * xs[i]], n) - Sum(xs, n) * Sum(xs, n)
        vy  == n * Sum([i \in 1..n |-> ys[i] * ys[i]], n) - Sum(ys, n) * Sum(ys, n)
        g   == Gcd(cov * cov, vx * vy)
    IN  IF n < 1 \/ vx * vy = 0 THEN NaN
        ELSE [sign |-> Sign(cov), num |-> (cov * cov) \div g, den |-> (vx * vy) \div g]

\* df[cols].corr()
corr(df, cols) ==
    [a \in {cols[i] : i \in 1..Len(cols)} |->
        [b \in {cols[i] : i \in 1..Len(cols)} |-> Pearson(df, a, b)]]

----------------------------------------------------------------------------
(* plotly express: a figure records what it was asked to draw.  A column   *)
(* argument that is no column of the frame makes px raise.                 *)

Raised == [type |-> "error"]

NoFigure == [type |-> "none"]

IsColumn(c) == \E i \in 1..Len(Columns) : Columns[i] = c

----------------------------------------------------------------------------
(* The layout (lines 18-100): widget ids, option lists, default values *)

RowMin == 5
RowMax == 50
RowStep == 5
RowDefault == 10
YearStep == 5
YearDefault == 2007

WidgetIds == {"row-slider", "x-axis", "y-axis", "country-dropdown",
              "year-slider", "map-variable", "continent-dropdown"}

OutputIds == {"data-preview", "scatterplot", "trend-chart", "map-chart",
              "correlation-matrix"}

\* A slider offers min, min + step, ... up to max.
SliderValues(lo, hi, step) == { v \in lo..hi : (v - lo) % step = 0 }

\* The values the user can give each widget.
Options(w) ==
    CASE w = "row-slider"         -> SliderValues(RowMin, RowMax, RowStep)
      [] w = "x-axis"             -> {"gdpPercap", "lifeExp", "pop"}
      [] w = "y-axis"             -> {"gdpPercap", "lifeExp", "pop"}
      [] w = "country-dropdown"   -> unique(gapminder, "country")
      [] w = "year-slider"        -> SliderValues(SetMin(unique(gapminder, "year")),
                                                  SetMax(unique(gapminder, "year")),
                                                  YearStep)
      [] w = "map-variable"       -> {"gdpPercap", "lifeExp", "pop"}
      [] w = "continent-dropdown" -> unique(gapminder, "continent")

\* The value= of each widget.
Defaults ==
    [w \in WidgetIds |->
        CASE w = "row-slider"         -> RowDefault
          [] w = "x-axis"             -> "gdpPercap"
          [] w = "y-axis"             -> "lifeExp"
          [] w = "country-dropdown"   -> "United States"
          [] w = "year-slider"        -> YearDefault
          [] w = "map-variable"       -> "gdpPercap"
          [] w = "continent-dropdown" -> "Asia"]

----------------------------------------------------------------------------
(* The callbacks (lines 105-188) *)

update_table(rows) ==
    LET preview == head(gapminder, rows)
    IN  [type   |-> "table",
         header |-> Columns,
         body   |-> [i \in 1..Len(preview) |->
                        [j \in 1..Len(Columns) |-> preview[i][Columns[j]]]]]

\* A variant of update_scatterplot: it numbers its figures with a counter
\* kept between invocations.
update_scatterplot_counting(x_col, y_col) ==
    IF ~(IsColumn(x_col) /\ IsColumn(y_col)) THEN Raised
    ELSE [type       |-> "scatter",
          rows       |-> gapminder,
          x          |-> x_col,
          y          |-> y_col,
          color      |-> "continent",
          size       |-> "pop",
          hover_name |-> "country",
          title      |-> <<"Scatterplot of ", y_col, " vs ", x_col,
                           Cardinality(calls["scatterplot"])>>]

update_scatterplot(x_col, y_col) ==
    IF ~(IsColumn(x_col) /\ IsColumn(y_col)) THEN Raised
    ELSE [type       |-> "scatter",
          rows       |-> gapminder,
          x          |-> x_col,
          y          |-> y_col,
          color      |-> "continent",
          size       |-> "pop",
          hover_name |-> "country",
          title      |-> <<"Scatterplot of ", y_col, " vs ", x_col>>]

\* A variant of update_trend_chart: it reads the first matching row for the
\* title, and so raises when no row matches.
update_trend_chart_first(selected_country) ==
    LET country_data == SelectSeq(gapminder, LAMBDA r : r.country = selected_country)
    IN  IF Len(country_data) = 0 THEN Raised
        ELSE [type    |-> "line",
              rows    |-> country_data,
              x       |-> "year",
              y       |-> "lifeExp",
              title   |-> <<"Life Expectancy Over Time for ", country_data[1].country>>,
              markers |-> TRUE]

update_trend_chart(selected_country) ==
    LET country_data == SelectSeq(gapminder, LAMBDA r : r.country = selected_country)
    IN  [type    |-> "line",
         rows    |-> country_data,
         x       |-> "year",
         y       |-> "lifeExp",
         title   |-> <<"Life Expectancy Over Time for ", selected_country>>,
         markers |-> TRUE]

\* A variant of update_map_chart: the rows up to the selected year.
update_map_chart_upto(selected_year, variable) ==
    LET year_data == SelectSeq(gapminder, LAMBDA r : r.year <= selected_year)
    IN  IF ~IsColumn(variable) THEN Raised
        ELSE [type         |-> "choropleth",
              rows         |-> year_data,
              locations    |-> "country",
              locationmode |-> "country names",
              color        |-> variable,
              hover_name   |-> "country",
              title        |-> <<variable, " in ", selected_year>>]

update_map_chart(selected_year, variable) ==
    LET year_data == SelectSeq(gapminder, LAMBDA r : r.year = selected_year)
    IN  IF ~IsColumn(variable) THEN Raised
        ELSE [type         |-> "choropleth",
              rows         |-> year_data,
              locations    |-> "country",
              locationmode |-> "country names",
              color        |-> variable,
              hover_name   |-> "country",
              title        |-> <<variable, " in ", selected_year>>]

update_correlation_matrix(selected_continent) ==
    LET continent_data == SelectSeq(gapminder, LAMBDA r : r.continent = selected_continent)
        correlation_matrix == corr(continent_data, NumericColumns)
    IN  [type      |-> "imshow",
         z         |-> correlation_matrix,
         text_auto |-> TRUE,
         labels    |-> "Correlation",
         title     |-> <<"Correlation Matrix for ", selected_continent>>]

\* @app.callback: the Output each callback writes and the Inputs it reads.
CallbackInputs ==
    [o \in OutputIds |->
        CASE o = "data-preview"       -> <<"row-slider">>
          [] o = "scatterplot"        -> <<"x-axis", "y-axis">>
          [] o = "trend-chart"        -> <<"country-dropdown">>
          [] o = "map-chart"          -> <<"year-slider", "map-variable">>
          [] o = "correlation-matrix" -> <<"continent-dropdown">>]

\* The decorated function of each Output, applied to the Inputs' values.
Handler(o, args) ==
    CASE o = "data-preview"       -> update_table(args[1])
      [] o = "scatterplot"        -> update_scatterplot(args[1], args[2])
      [] o = "trend-chart"        -> update_trend_chart(args[1])
      [] o = "map-chart"          -> update_map_chart(args[1], args[2])
      [] o = "correlation-matrix" -> update_correlation_matrix(args[1])

----------------------------------------------------------------------------
(* The reactive engine: a session is one browser page.  The page holds the *)
(* widget values.  When the page loads, the initial call of every          *)
(* callback is due; afterwards a change of an Input makes the callback     *)
(* bound to it due.  The engine invokes a due callback with the current    *)
(* values of all its Inputs, one invocation a step, and the result         *)
(* replaces the Output.                                                    *)

\* A variant of Args: the widget values are kept in one place for all
\* sessions.
Args_shared(s, o) ==
    LET t == CHOOSE u \in DOMAIN widgets : TRUE
    IN  [i \in 1..Len(CallbackInputs[o]) |-> widgets[t][CallbackInputs[o][i]]]

Args(s, o) == [i \in 1..Len(CallbackInputs[o]) |-> widgets[s][CallbackInputs[o][i]]]

\* A variant of Triggered: only the first Input of a callback triggers it.
Triggered_first(w) == { o \in OutputIds : CallbackInputs[o][1] = w }

Triggered(w) == { o \in OutputIds : \E i \in 1..Len(CallbackInputs[o]) : CallbackInputs[o][i] = w }

\* The record of one invocation: its arguments, its result, and whether it
\* is the first of this callback with these arguments (1) or a later one (2).
Invocation(o, args) ==
    [args   |-> args,
     result |-> Handler(o, args),
     n      |-> IF \E e \in calls[o] : e.args = args THEN 2 ELSE 1]

\* What an Output shows once its callback has returned fig: a callback that
\* raises leaves the Output as it was.
Shown(old, fig) == IF fig = Raised THEN old ELSE fig

InitSessions(S, D, n) ==
    /\ gapminder \in D
    /\ widgets = [s \in S |-> Defaults]
    /\ outputs = [s \in S |-> [o \in OutputIds |-> NoFigure]]
    /\ pending = [s \in S |-> {}]
    /\ loaded = {}
    /\ calls = [o \in OutputIds |-> {}]
    /\ interactions = 0
    /\ limit = n

\* Session s opens the page: the layout is rendered with the widgets'
\* value= and the initial call of every callback becomes due.  Each of the
\* five is invoked on its own, as any later call is.
PageLoad(s) ==
    /\ s \notin loaded
    /\ loaded' = loaded \cup {s}
    /\ pending' = [pending EXCEPT ![s] = OutputIds]
    /\ UNCHANGED <<gapminder, widgets, outputs, calls, interactions, limit>>

\* The user of session s gives widget w another of its values.
SetValue(s, w, v) ==
    /\ s \in loaded
    /\ interactions < limit
    /\ v \in Options(w)
    /\ v # widgets[s][w]
    /\ widgets' = [widgets EXCEPT ![s][w] = v]
    /\ pending' = [pending EXCEPT ![s] = @ \cup Triggered(w)]
    /\ interactions' = interactions + 1
    /\ UNCHANGED <<gapminder, outputs, loaded, calls, limit>>

\* A variant of Callback: update_trend_chart rebinds the global table to
\* the rows it selected.
Callback_rebinds(s, o) ==
    /\ o \in pending[s]
    /\ LET inv == Invocation(o, Args(s, o))
       IN  /\ outputs' = [outputs EXCEPT ![s][o] = Shown(@, inv.result)]
           /\ calls' = [calls EXCEPT ![o] = @ \cup {inv}]
    /\ pending' = [pending EXCEPT ![s] = @ \ {o}]
    /\ gapminder' = IF o = "trend-chart"
                    THEN SelectSeq(gapminder, LAMBDA r : r.country = Args(s, o)[1])
                    ELSE gapminder
    /\ UNCHANGED <<widgets, loaded, interactions, limit>>

\* The engine invokes the callback of Output o for session s.
Callback(s, o) ==
    /\ o \in pending[s]
    /\ LET inv == Invocation(o, Args(s, o))
       IN  /\ outputs' = [outputs EXCEPT ![s][o] = Shown(@, inv.result)]
           /\ calls' = [calls EXCEPT ![o] = @ \cup {inv}]
    /\ pending' = [pending EXCEPT ![s] = @ \ {o}]
    /\ UNCHANGED <<gapminder, widgets, loaded, interactions, limit>>

Open == \E s \in DOMAIN widgets : PageLoad(s)

UserChange == \E s \in DOMAIN widgets : \E w \in WidgetIds : \E v \in Options(w) : SetValue(s, w, v)

DataPreview == \E s \in DOMAIN widgets : Callback(s, "data-preview")

Scatterplot == \E s \in DOMAIN widgets : Callback(s, "scatterplot")

TrendChart == \E s \in DOMAIN widgets : Callback(s, "trend-chart")

MapChart == \E s \in DOMAIN widgets : Callback(s, "map-chart")

CorrelationMatrix == \E s \in DOMAIN widgets : Callback(s, "correlation-matrix")

Next ==
    \/ Open
    \/ UserChange
    \/ DataPreview
    \/ Scatterplot
    \/ TrendChart
    \/ MapChart
    \/ CorrelationMatrix

Init == InitSessions({"s1"}, SessionDatasets, MaxInteractions)

Spec == Init /\ [][Next]_vars

InitRevisit == InitSessions({"s1"}, {Shuffled}, MaxRevisits)

SpecRevisit == InitRevisit /\ [][Next]_vars

InitTwo == InitSessions({"s1", "s2"}, {Excerpt}, MaxSharedInteractions)

SpecSessions == InitTwo /\ [][Next]_vars

----------------------------------------------------------------------------
(* The callbacks on their own: a table is loaded and one callback is       *)
(* invoked with an argument of the type its Input gives it.                *)

ArgsOf(o) ==
    CASE o = "data-preview"       -> { <<n>> : n \in SliderValues(RowMin, RowMax, RowStep) }
      [] o = "scatterplot"        -> { <<x, y>> : x \in Options("x-axis"), y \in Options("y-axis") }
      [] o = "trend-chart"        -> { <<c>> : c \in Countries }
      [] o = "map-chart"          -> { <<y, v>> : y \in Years, v \in Options("map-variable") }
      [] o = "correlation-matrix" -> { <<k>> : k \in {ContinentOf[c] : c \in Countries} }

Invoke(o) ==
    /\ \A p \in OutputIds : calls[p] = {}
    /\ \E args \in ArgsOf(o) : calls' = [calls EXCEPT ![o] = {Invocation(o, args)}]
    /\ UNCHANGED <<gapminder, widgets, outputs, pending, loaded, interactions, limit>>

InitLoaded(D) ==
    /\ gapminder \in D
    /\ widgets = << >>
    /\ outputs = << >>
    /\ pending = << >>
    /\ loaded = {}
    /\ calls = [o \in OutputIds |-> {}]
    /\ interactions = 0
    /\ limit = 0

NextFn ==
    \/ Invoke("data-preview")
    \/ Invoke("scatterplot")
    \/ Invoke("trend-chart")
    \/ Invoke("map-chart")
    \/ Invoke("correlation-matrix")

InitFn == InitLoaded(Datasets)

SpecFn == InitFn /\ [][NextFn]_vars

InitPreview == InitLoaded(PreviewDatasets)

SpecPreview == InitPreview /\ [][NextFn]_vars

----------------------------------------------------------------------------
(* Properties of the callbacks.  They are stated over the table and the    *)
(* recorded invocations, not over the definitions of the callbacks.        *)

\* The positions of the rows of the table whose column col holds v, and
\* the row of the table that is the j-th of them.
Matching(col, v) == { i \in 1..Len(gapminder) : gapminder[i][col] = v }

Nth(col, v, j) ==
    gapminder[CHOOSE i \in Matching(col, v) :
                  Cardinality({ k \in Matching(col, v) : k <= i }) = j]

\* rows are exactly the rows of the table whose column col holds v, in
\* table order.
IsSelection(rows, col, v) ==
    /\ Len(rows) = Cardinality(Matching(col, v))
    /\ \A j \in 1..Len(rows) : rows[j] = Nth(col, v, j)

DistinctKeys ==
    \A i, j \in 1..Len(gapminder) :
        (gapminder[i].country = gapminder[j].country /\ gapminder[i].year = gapminder[j].year)
            => i = j

\* C1: for a country of the table, the rows update_trend_chart hands to the
\* line chart all have that country and their years increase strictly in
\* the order emitted, whatever the order of the table's rows (here: of any
\* table with one row per country and year).
C1_TrendOrderedByYear ==
    \A c \in calls["trend-chart"] :
        (DistinctKeys /\ c.args[1] \in unique(gapminder, "country")) =>
            /\ \A i \in 1..Len(c.result.rows) : c.result.rows[i].country = c.args[1]
            /\ \A i, j \in 1..Len(c.result.rows) :
                   i < j => c.result.rows[i].year < c.result.rows[j].year

\* C2: for every row count N of the row slider, update_table gives a table
\* of exactly min(N, rows of the table) body rows, the first rows of the
\* table in table order, under a header of the table's column names.
C2_PreviewFirstRows ==
    \A c \in calls["data-preview"] :
        LET N == c.args[1]
            t == c.result
        IN  /\ t.type = "table"
            /\ t.header = <<"country", "year", "pop", "continent", "lifeExp", "gdpPercap">>
            /\ Len(t.body) = (IF N <= Len(gapminder) THEN N ELSE Len(gapminder))
            /\ \A i \in 1..Len(t.body) :
                   t.body[i] = <<gapminder[i].country, gapminder[i].year, gapminder[i].pop,
                                 gapminder[i].continent, gapminder[i].lifeExp,
                                 gapminder[i].gdpPercap>>

\* C2's case: the table has more rows than the slider asks for, and rows
\* that differ, so the preview is a proper prefix.
C2_Witness ==
    \E c \in calls["data-preview"] :
        /\ c.args[1] = 10
        /\ Len(gapminder) > 10
        /\ Len(c.result.body) = 10
        /\ gapminder[1] # gapminder[Len(gapminder)]

\* C4: invoked with a country that matches no row, update_trend_chart
\* returns a line chart over zero rows and does not fail.
C4_AbsentCountryEmptyChart ==
    \A c \in calls["trend-chart"] :
        c.args[1] \notin unique(gapminder, "country") =>
            /\ c.result.type = "line"
            /\ c.result.rows = << >>

C4_Witness ==
    \E c \in calls["trend-chart"] :
        /\ c.args[1] \notin unique(gapminder, "country")
        /\ c.result.type = "line"

\* C10: for a year of the table and any of the three variables, the rows
\* update_map_chart hands to the choropleth are exactly the table's rows of
\* that year, so as many as the table has for that year.
C10_MapRowsOfYear ==
    \A c \in calls["map-chart"] :
        (c.args[1] \in unique(gapminder, "year")
            /\ c.args[2] \in {"gdpPercap", "lifeExp", "pop"}) =>
            /\ c.result.type = "choropleth"
            /\ IsSelection(c.result.rows, "year", c.args[1])

C10_Witness ==
    \E c \in calls["map-chart"] :
        /\ c.args[2] = "pop"
        /\ c.result.type = "choropleth"
        /\ Len(c.result.rows) = 1
        /\ Len(gapminder) = 2

----------------------------------------------------------------------------
(* Properties of the sessions *)

\* The values of the Inputs the statement binds to each Output, for session s.
Bound(s, o) ==
    CASE o = "data-preview"       -> <<widgets[s]["row-slider"]>>
      [] o = "scatterplot"        -> <<widgets[s]["x-axis"], widgets[s]["y-axis"]>>
      [] o = "trend-chart"        -> <<widgets[s]["country-dropdown"]>>
      [] o = "map-chart"          -> <<widgets[s]["year-slider"], widgets[s]["map-variable"]>>
      [] o = "correlation-matrix" -> <<widgets[s]["continent-dropdown"]>>

\* The Output the statement binds each widget to.
OutputOf(w) ==
    CASE w = "row-slider"         -> "data-preview"
      [] w = "x-axis"             -> "scatterplot"
      [] w = "y-axis"             -> "scatterplot"
      [] w = "country-dropdown"   -> "trend-chart"
      [] w = "year-slider"        -> "map-chart"
      [] w = "map-variable"       -> "map-chart"
      [] w = "continent-dropdown" -> "correlation-matrix"

\* C3: in every reachable state each widget's value lies in the domain the
\* table gives it: the country in the table's countries, the continent in
\* its continents, the year in its years, the axis and map variables among
\* gdpPercap, lifeExp, pop.
C3_WidgetValuesInDomain ==
    \A s \in DOMAIN widgets :
        /\ widgets[s]["country-dropdown"] \in unique(gapminder, "country")
        /\ widgets[s]["continent-dropdown"] \in unique(gapminder, "continent")
        /\ widgets[s]["year-slider"] \in unique(gapminder, "year")
        /\ \A w \in {"x-axis", "y-axis", "map-variable"} :
               widgets[s][w] \in {"gdpPercap", "lifeExp", "pop"}

\* Every Output of session s whose callback is not due shows the callback's
\* result for the current values of its bound Inputs.
UpToDate(s) ==
    \A o \in OutputIds \ pending[s] : outputs[s][o] = Handler(o, Bound(s, o))

\* A step that changes widget w of session s leaves alone every Output not
\* bound to w, and whether its callback is due.
OtherOutputsKept(s, w) ==
    widgets'[s][w] # widgets[s][w] =>
        \A o \in OutputIds \ {OutputOf(w)} :
            /\ outputs'[s][o] = outputs[s][o]
            /\ (o \in pending'[s]) = (o \in pending[s])

\* C6: once every widget change has been processed, each Output shows its
\* handler applied to the current values of exactly its bound Inputs, and a
\* widget change leaves the Outputs not bound to that widget as they were.
C6_OutputsFollowBoundInputs ==
    /\ [](\A s \in loaded : UpToDate(s))
    /\ [][\A s \in DOMAIN widgets : \A w \in WidgetIds : OtherOutputsKept(s, w)]_vars

C6_Witness ==
    \E s \in loaded :
        /\ interactions = 1
        /\ pending[s] = {}
        /\ widgets[s]["map-variable"] # Defaults["map-variable"]
        /\ outputs[s]["map-chart"].color = widgets[s]["map-variable"]
        /\ outputs[s]["trend-chart"].type = "line"

\* A step in which a callback is invoked: a due callback is no longer due.
HandlerStep ==
    \E s \in DOMAIN pending : \E o \in pending[s] : o \notin pending'[s]

\* The widget values of all sessions differ in at most one widget of one session.
OneWidgetChanged ==
    \E s \in DOMAIN widgets : \E w \in WidgetIds :
        \A t \in DOMAIN widgets : \A x \in WidgetIds :
            (t # s \/ x # w) => widgets'[t][x] = widgets[t][x]

\* C7: no handler invocation changes the table or a widget value: the table
\* stays the one loaded at startup, and a widget value changes only in a
\* user's interaction with that widget.
C7_HandlersChangeNoInput ==
    [][/\ gapminder' = gapminder
       /\ HandlerStep => widgets' = widgets
       /\ widgets' # widgets =>
              (interactions' = interactions + 1 /\ OneWidgetChanged /\ outputs' = outputs)]_vars

C7_Witness ==
    \E s \in loaded :
        /\ interactions = 1
        /\ pending[s] = {}
        /\ widgets[s]["country-dropdown"] = "China"
        /\ outputs[s]["trend-chart"].title[2] = "China"
        /\ { e.args[1] : e \in calls["trend-chart"] } = {"United States", "China"}

\* C8: a handler's result is determined by the table and its own input
\* values: whatever was done before, invocations of one handler with the
\* same input values have returned the same result.
C8_SameInputsSameResult ==
    \A o \in OutputIds : \A a, b \in calls[o] : a.args = b.args => a.result = b.result

\* C8's case: update_scatterplot has run with the default inputs on page
\* load, then with other inputs, then with the default inputs again.
C8_Witness ==
    \E s \in loaded :
        /\ interactions = 2
        /\ pending[s] = {}
        /\ widgets[s] = Defaults
        /\ Cardinality({ e \in calls["scatterplot"] : e.n = 1 }) = 2
        /\ \E e \in calls["scatterplot"] : e.n = 2 /\ e.args = <<"gdpPercap", "lifeExp">>

\* The first half of C5: when fewer than 2 rows match the continent,
\* update_correlation_matrix still returns its heatmap, every cell
\* not-a-number.
FewRowsNaNFallback ==
    \A c \in calls["correlation-matrix"] :
        Cardinality(Matching("continent", c.args[1])) < 2 =>
            /\ c.result.type = "imshow"
            /\ \A a, b \in {"gdpPercap", "lifeExp", "pop"} : c.result.z[a][b] = NaN

\* A state in which it has done so for a continent of one row.
FewRowsReached ==
    \E s \in loaded : \E c \in calls["correlation-matrix"] :
        /\ Cardinality(Matching("continent", c.args[1])) = 1
        /\ Len(gapminder) > 1
        /\ c.args[1] = widgets[s]["continent-dropdown"]
        /\ outputs[s]["correlation-matrix"].type = "imshow"
        /\ outputs[s]["correlation-matrix"].z["pop"]["lifeExp"] = NaN

\* The second half of C5 is about a handler that fails.  With the widgets
\* the layout declares (options from the table or from the three column
\* names, no dropdown clearable) no invocation of any callback raises, so
\* the case it speaks of is in no behaviour.
NoHandlerRaises ==
    \A o \in OutputIds : \A c \in calls[o] : c.result # Raised

\* The state of one session.
Session(s) == <<widgets[s], outputs[s], pending[s], s \in loaded>>

\* C9: with several sessions at work in any interleaving, what a session is
\* shown comes from its own widget values and the table alone: a step
\* changes the state of one session only, and an Output it replaces gets
\* the handler's result for that session's own widget values.
C9_SessionsIndependent ==
    [][\E s \in DOMAIN widgets :
          /\ \A t \in DOMAIN widgets \ {s} : Session(t)' = Session(t)
          /\ \A o \in OutputIds :
                 outputs'[s][o] # outputs[s][o] => outputs'[s][o] = Handler(o, Bound(s, o))]_vars

C9_Witness ==
    /\ loaded = {"s1", "s2"}
    /\ interactions = 1
    /\ pending["s1"] = {} /\ pending["s2"] = {}
    /\ widgets["s1"]["x-axis"] = "pop"
    /\ widgets["s2"]["x-axis"] = "gdpPercap"
    /\ outputs["s1"]["scatterplot"].x = "pop"
    /\ outputs["s2"]["scatterplot"].x = "gdpPercap"

====
